---------------------------- MODULE Spec2Model ----------------------------
(***************************************************************************)
(* A model of src/filesystem.py: the path and command guards, the          *)
(* encoding-fallback reader, the bounded process runner and the tool       *)
(* handlers built on them.                                                 *)
(*                                                                         *)
(* Strings are sequences of one-character strings, so that splitting,      *)
(* lower-casing, prefix and suffix tests are computed the way the code     *)
(* computes them.  File contents are sequences of bytes (0..255) and texts *)
(* are sequences of code points.                                           *)
(***************************************************************************)
EXTENDS Integers, Sequences, FiniteSets, TLC

VARIABLES
    gIn,      \* guard harness: the string handed to a guard
    gOut,     \* guard harness: what the guards returned
    fs,       \* the filesystem: node key -> node
    last,     \* the last tool invocation and the report it returned
    run       \* execute_system_command: the state of the current run

vars == <<gIn, gOut, fs, last, run>>

---------------------------------------------------------------------------
(* Bounds of the model *)

MaxPathLen == 5      \* longest path string handed to the guards alone
MaxCmdLen == 5       \* longest command string handed to is_safe_command alone
MaxFileBytes == 3    \* longest file handed to read_file_content alone

MaxTimeout == 1      \* longest timeout, in clock ticks, given to execute_command

\* The size ceiling.  The program's value is 10 * 1024 * 1024 bytes; the
\* model keeps every comparison with it and scales the number down so that
\* files reach it.
MAX_FILE_SIZE == 2

---------------------------------------------------------------------------
(* Strings *)

SeqsUpTo(A, n) == UNION {[1..k -> A] : k \in 0..n}

UpperChars == <<"A","B","C","D","E","F","G","H","I","J","K","L","M",
                "N","O","P","Q","R","S","T","U","V","W","X","Y","Z">>
LowerChars == <<"a","b","c","d","e","f","g","h","i","j","k","l","m",
                "n","o","p","q","r","s","t","u","v","w","x","y","z">>

LowerOf ==
    [c \in {UpperChars[i] : i \in 1..26} |->
        LowerChars[CHOOSE i \in 1..26 : UpperChars[i] = c]]

\* str.lower() on one ASCII character
LowerChar(c) == IF c \in DOMAIN LowerOf THEN LowerOf[c] ELSE c

\* str.lower()
Lower(s) == [i \in 1..Len(s) |-> LowerChar(s[i])]

\* the characters str.strip() and str.split() treat as whitespace
Whitespace == {" ", "\t", "\n", "\r", "\f"}

RECURSIVE LStrip(_)
LStrip(s) == IF s # <<>> /\ Head(s) \in Whitespace THEN LStrip(Tail(s)) ELSE s

RECURSIVE RStrip(_)
RStrip(s) ==
    IF s # <<>> /\ s[Len(s)] \in Whitespace
    THEN RStrip(SubSeq(s, 1, Len(s) - 1))
    ELSE s

\* str.strip()
Strip(s) == RStrip(LStrip(s))

\* The maximal non-empty runs of characters of s that are not in seps, in
\* order: str.split() for seps = Whitespace, and the components of a path
\* for seps = {"/"}.
RECURSIVE Tokens(_, _)
Tokens(s, seps) ==
    IF s = <<>> THEN <<>>
    ELSE IF Head(s) \in seps THEN Tokens(Tail(s), seps)
    ELSE LET n == CHOOSE i \in 1..Len(s) :
                      /\ \A j \in 1..i : s[j] \notin seps
                      /\ (i = Len(s) \/ s[i + 1] \in seps)
         IN  <<SubSeq(s, 1, n)>> \o Tokens(SubSeq(s, n + 1, Len(s)), seps)

\* The order of characters (by code point) among the characters of names
Ascii == <<" ", "&", ".", "/", ";">> \o UpperChars \o LowerChars

CodeOf ==
    [c \in {Ascii[i] : i \in 1..Len(Ascii)} |->
        CHOOSE i \in 1..Len(Ascii) : Ascii[i] = c]

CharCode(c) == IF c \in DOMAIN CodeOf THEN CodeOf[c] ELSE 0

\* a < b for strings
RECURSIVE StrLess(_, _)
StrLess(a, b) ==
    IF b = <<>> THEN FALSE
    ELSE IF a = <<>> THEN TRUE
    ELSE IF Head(a) = Head(b) THEN StrLess(Tail(a), Tail(b))
    ELSE CharCode(Head(a)) < CharCode(Head(b))

\* str.startswith(prefix)
StartsWith(s, prefix) ==
    Len(s) >= Len(prefix) /\ SubSeq(s, 1, Len(prefix)) = prefix

DotDot == <<".", ".">>

---------------------------------------------------------------------------
(* Constants of the program *)

ALLOWED_EXTENSIONS ==
    { <<".","t","x","t">>, <<".","p","y">>, <<".","j","a","v","a">>,
      <<".","j","s">>, <<".","j","s","o","n">>, <<".","m","d">>,
      <<".","c","s","v">>, <<".","l","o","g">>, <<".","y","a","m","l">>,
      <<".","y","m","l">>, <<".","x","m","l">>, <<".","h","t","m","l">>,
      <<".","c","s","s">>, <<".","s","h">>, <<".","b","a","t">>,
      <<".","c","l","j">>, <<".","e","d","n">>, <<".","c","l","j","s">>,
      <<".","c","l","j","c">>, <<".","d","u","m","p">> }

BLOCKED_COMMANDS ==
    { <<"r","m">>, <<"d","e","l">>, <<"f","o","r","m","a","t">>,
      <<"m","k","f","s">>, <<"d","d">>,
      <<"s","h","u","t","d","o","w","n">>, <<"r","e","b","o","o","t">>,
      <<"h","a","l","t">>, <<"p","o","w","e","r","o","f","f">> }

---------------------------------------------------------------------------
(* pathlib on a POSIX host *)

\* The anchor of a path string: "/" for an absolute path, "//" for a path
\* that starts with exactly two slashes, nothing for a relative path.
PathRoot(path) ==
    IF path = <<>> \/ Head(path) # "/" THEN <<>>
    ELSE IF Len(path) >= 2 /\ path[2] = "/" /\ ~(Len(path) >= 3 /\ path[3] = "/")
         THEN <<"/", "/">>
         ELSE <<"/">>

\* Path(path).parts: the anchor, then the components, without the empty
\* and the "." components; ".." components are kept as they are.
PathParts(path) ==
    LET comps == Tokens(path, {"/"})
        kept  == SelectSeq(comps, LAMBDA c : c # <<".">>)
    IN  (IF PathRoot(path) = <<>> THEN <<>> ELSE <<PathRoot(path)>>) \o kept

\* Path(path).name: the last component, empty when there is none
PathName(path) ==
    LET comps == SelectSeq(Tokens(path, {"/"}), LAMBDA c : c # <<".">>)
    IN  IF comps = <<>> THEN <<>> ELSE comps[Len(comps)]

\* Path(path).suffix: the name from its last dot on, when that dot is
\* neither the first nor the last character of the name
PathSuffix(path) ==
    LET name == PathName(path)
        dots == {i \in 1..Len(name) : name[i] = "."}
    IN  IF dots = {} THEN <<>>
        ELSE LET k == CHOOSE i \in dots : \A j \in dots : j <= i
             IN  IF 1 < k /\ k < Len(name) THEN SubSeq(name, k, Len(name))
                 ELSE <<>>

---------------------------------------------------------------------------
(* The guards *)

\* A guard that lets every path through; C1 tells it from is_safe_path.
is_safe_path_open(path, resolveRaises) == TRUE

\* is_safe_path.  resolveRaises says whether Path(path).resolve() raises
\* on this host (an embedded NUL, a symlink loop, a deleted working
\* directory): the except clause turns that into False.
is_safe_path(path, resolveRaises) ==
    IF resolveRaises THEN FALSE
    ELSE LET parts == PathParts(path)
         IN  ~ \E i \in 1..Len(parts) : StartsWith(parts[i], DotDot)

\* A guard that allows every suffix; C2 tells it from is_allowed_file.
is_allowed_file_open(path) == TRUE

\* is_allowed_file
is_allowed_file(path) == Lower(PathSuffix(path)) \in ALLOWED_EXTENSIONS

\* A guard that compares the first token as it is typed; C3 tells it from
\* is_safe_command.
is_safe_command_as_typed(command) ==
    LET cmd_parts == Tokens(Strip(command), Whitespace)
    IN  IF cmd_parts = <<>> THEN FALSE
        ELSE cmd_parts[1] \notin BLOCKED_COMMANDS

\* A guard that looks for a blocked word among all the tokens; C4 tells it
\* from is_safe_command.
is_safe_command_any_token(command) ==
    LET cmd_parts == Tokens(Strip(command), Whitespace)
    IN  IF cmd_parts = <<>> THEN FALSE
        ELSE \A i \in 1..Len(cmd_parts) :
                 Lower(cmd_parts[i]) \notin BLOCKED_COMMANDS

\* is_safe_command
is_safe_command(command) ==
    LET cmd_parts == Tokens(Strip(command), Whitespace)
    IN  IF cmd_parts = <<>> THEN FALSE
        ELSE Lower(cmd_parts[1]) \notin BLOCKED_COMMANDS

---------------------------------------------------------------------------
(* Text encodings.  A byte is a number in 0..255, a text is a sequence of  *)
(* code points.                                                            *)

NoChar == [len |-> 0, cp |-> 0]

IsCont(bs, i) == i <= Len(bs) /\ bs[i] \in 128..191

\* The first character of bs in UTF-8 (strict: no overlong forms, no
\* surrogates, nothing above U+10FFFF); len = 0 when bs starts with no
\* valid character.
Utf8Head(bs) ==
    LET b1 == bs[1]
        b2 == IF Len(bs) >= 2 THEN bs[2] ELSE 0
        b3 == IF Len(bs) >= 3 THEN bs[3] ELSE 0
        b4 == IF Len(bs) >= 4 THEN bs[4] ELSE 0
    IN  IF b1 < 128 THEN [len |-> 1, cp |-> b1]
        ELSE IF b1 \in 194..223 /\ IsCont(bs, 2)
             THEN [len |-> 2, cp |-> (b1 - 192) * 64 + (b2 - 128)]
        ELSE IF /\ b1 \in 224..239 /\ IsCont(bs, 2) /\ IsCont(bs, 3)
                /\ (b1 = 224 => b2 >= 160)
                /\ (b1 = 237 => b2 <= 159)
             THEN [len |-> 3,
                   cp |-> (b1 - 224) * 4096 + (b2 - 128) * 64 + (b3 - 128)]
        ELSE IF /\ b1 \in 240..244
                /\ IsCont(bs, 2) /\ IsCont(bs, 3) /\ IsCont(bs, 4)
                /\ (b1 = 240 => b2 >= 144)
                /\ (b1 = 244 => b2 <= 143)
             THEN [len |-> 4,
                   cp |-> (b1 - 240) * 262144 + (b2 - 128) * 4096
                          + (b3 - 128) * 64 + (b4 - 128)]
        ELSE NoChar

\* The two-byte characters of CPython's gbk codec over the bytes the model
\* uses (lead byte, trail byte) :> code point.  A pair that is not listed
\* is not a character.
GbkTable ==
    <<195, 97>> :> 32970 @@ <<195, 195>> :> 22969 @@ <<195, 169>> :> 33541 @@
    <<195, 214>> :> 24357 @@ <<195, 208>> :> 30511 @@ <<195, 128>> :> 33036 @@
    <<195, 228>> :> 23081 @@ <<195, 184>> :> 37238 @@ <<195, 173>> :> 38086 @@
    <<195, 233>> :> 30596 @@ <<169, 97>> :> 12443 @@ <<169, 195>> :> 9503 @@
    <<169, 169>> :> 9477 @@ <<169, 214>> :> 9522 @@ <<169, 208>> :> 9516 @@
    <<169, 128>> :> 65122 @@ <<169, 228>> :> 9536 @@ <<169, 184>> :> 9492 @@
    <<169, 173>> :> 9481 @@ <<169, 233>> :> 9541 @@ <<214, 97>> :> 35589 @@
    <<214, 195>> :> 32622 @@ <<214, 169>> :> 34584 @@ <<214, 214>> :> 31181 @@
    <<214, 208>> :> 20013 @@ <<214, 128>> :> 35620 @@ <<214, 228>> :> 21650 @@
    <<214, 184>> :> 25351 @@ <<214, 173>> :> 27713 @@ <<214, 233>> :> 29664 @@
    <<208, 97>> :> 34891 @@ <<208, 195>> :> 24571 @@ <<208, 169>> :> 20123 @@
    <<208, 214>> :> 20804 @@ <<208, 208>> :> 34892 @@ <<208, 128>> :> 34939 @@
    <<208, 228>> :> 34966 @@ <<208, 184>> :> 25032 @@ <<208, 173>> :> 21327 @@
    <<208, 233>> :> 34394 @@ <<228, 97>> :> 37579 @@ <<228, 195>> :> 28095 @@
    <<228, 169>> :> 27918 @@ <<228, 214>> :> 28210 @@ <<228, 208>> :> 28267 @@
    <<228, 128>> :> 37609 @@ <<228, 228>> :> 28375 @@ <<228, 184>> :> 28051 @@
    <<228, 173>> :> 27957 @@ <<228, 233>> :> 28319 @@ <<184, 97>> :> 31436 @@
    <<184, 195>> :> 35813 @@ <<184, 169>> :> 20463 @@ <<184, 214>> :> 38050 @@
    <<184, 208>> :> 24863 @@ <<184, 128>> :> 31476 @@ <<184, 228>> :> 38224 @@
    <<184, 184>> :> 29238 @@ <<184, 173>> :> 33105 @@ <<184, 233>> :> 25601 @@
    <<173, 97>> :> 29862 @@ <<173, 128>> :> 29896 @@ <<233, 97>> :> 38285 @@
    <<233, 195>> :> 27082 @@ <<233, 169>> :> 26937 @@ <<233, 214>> :> 27257 @@
    <<233, 208>> :> 27198 @@ <<233, 128>> :> 38315 @@ <<233, 228>> :> 27527 @@
    <<233, 184>> :> 26982 @@ <<233, 173>> :> 27012 @@ <<233, 233>> :> 27546

\* gb2312 is the part of gbk whose lead byte is in A1..F7 and whose trail
\* byte is in A1..FE.
GbkHead(bs, strict2312) ==
    LET b1 == bs[1]
        pr == IF Len(bs) >= 2 THEN <<bs[1], bs[2]>> ELSE <<>>
    IN  IF b1 < 128 THEN [len |-> 1, cp |-> b1]
        ELSE IF /\ pr \in DOMAIN GbkTable
                /\ (strict2312 => (pr[1] \in 161..247 /\ pr[2] \in 161..254))
             THEN [len |-> 2, cp |-> GbkTable[pr]]
        ELSE NoChar

\* cp1252's bytes 80..9F (81, 8D, 8F, 90 and 9D are undefined)
Cp1252Table ==
    128 :> 8364 @@ 130 :> 8218 @@ 131 :> 402 @@ 132 :> 8222 @@ 133 :> 8230 @@
    134 :> 8224 @@ 135 :> 8225 @@ 136 :> 710 @@ 137 :> 8240 @@ 138 :> 352 @@
    139 :> 8249 @@ 140 :> 338 @@ 142 :> 381 @@ 145 :> 8216 @@ 146 :> 8217 @@
    147 :> 8220 @@ 148 :> 8221 @@ 149 :> 8226 @@ 150 :> 8211 @@ 151 :> 8212 @@
    152 :> 732 @@ 153 :> 8482 @@ 154 :> 353 @@ 155 :> 8250 @@ 156 :> 339 @@
    158 :> 382 @@ 159 :> 376

Cp1252Head(bs) ==
    LET b1 == bs[1]
    IN  IF b1 \in 128..159
        THEN IF b1 \in DOMAIN Cp1252Table
             THEN [len |-> 1, cp |-> Cp1252Table[b1]]
             ELSE NoChar
        ELSE [len |-> 1, cp |-> b1]

KnownEncodings == {"utf-8", "ascii", "gbk", "gb2312", "latin-1", "cp1252"}

HeadChar(enc, bs) ==
    CASE enc = "utf-8"   -> Utf8Head(bs)
      [] enc = "ascii"   -> IF bs[1] < 128 THEN [len |-> 1, cp |-> bs[1]]
                            ELSE NoChar
      [] enc = "gbk"     -> GbkHead(bs, FALSE)
      [] enc = "gb2312"  -> GbkHead(bs, TRUE)
      [] enc = "latin-1" -> [len |-> 1, cp |-> bs[1]]
      [] enc = "cp1252"  -> Cp1252Head(bs)

\* bytes.decode(enc), errors='strict': ok = FALSE is UnicodeDecodeError
RECURSIVE Decode(_, _)
Decode(enc, bs) ==
    IF bs = <<>> THEN [ok |-> TRUE, text |-> <<>>]
    ELSE LET h == HeadChar(enc, bs)
         IN  IF h.len = 0 THEN [ok |-> FALSE, text |-> <<>>]
             ELSE LET r == Decode(enc, SubSeq(bs, h.len + 1, Len(bs)))
                  IN  IF r.ok THEN [ok |-> TRUE, text |-> <<h.cp>> \o r.text]
                      ELSE r

\* One code point in UTF-8; <<>> for a surrogate, which UTF-8 cannot encode
Utf8Bytes(cp) ==
    IF cp < 128 THEN <<cp>>
    ELSE IF cp < 2048 THEN <<192 + (cp \div 64), 128 + (cp % 64)>>
    ELSE IF cp \in 55296..57343 THEN <<>>
    ELSE IF cp < 65536
         THEN <<224 + (cp \div 4096), 128 + ((cp \div 64) % 64),
                128 + (cp % 64)>>
    ELSE <<240 + (cp \div 262144), 128 + ((cp \div 4096) % 64),
           128 + ((cp \div 64) % 64), 128 + (cp % 64)>>

CharBytes(enc, cp) ==
    CASE enc = "utf-8"   -> Utf8Bytes(cp)
      [] enc = "ascii"   -> IF cp < 128 THEN <<cp>> ELSE <<>>
      [] enc = "latin-1" -> IF cp < 256 THEN <<cp>> ELSE <<>>
      [] OTHER           -> <<>>

RECURSIVE EncodeChars(_, _)
EncodeChars(enc, text) ==
    IF text = <<>> THEN [ok |-> TRUE, bytes |-> <<>>]
    ELSE LET b == CharBytes(enc, Head(text))
             r == EncodeChars(enc, Tail(text))
         IN  IF b = <<>> \/ ~r.ok THEN [ok |-> FALSE, bytes |-> <<>>]
             ELSE [ok |-> TRUE, bytes |-> b \o r.bytes]

\* str.encode(enc) and the encoder of open(..., encoding=enc): err is
\* "LookupError" for a name that is no codec, "UnicodeEncodeError" for a
\* text the codec cannot represent, "" otherwise.
Encode(enc, text) ==
    IF enc \notin KnownEncodings
    THEN [err |-> "LookupError", bytes |-> <<>>]
    ELSE LET r == EncodeChars(enc, text)
         IN  IF r.ok THEN [err |-> "", bytes |-> r.bytes]
             ELSE [err |-> "UnicodeEncodeError", bytes |-> <<>>]

CR == 13
LF == 10

\* What reading a text-mode file (newline=None) does to the decoded text:
\* "\r\n" and a lone "\r" both become "\n".
RECURSIVE UniversalNewlines(_)
UniversalNewlines(text) ==
    IF text = <<>> THEN <<>>
    ELSE IF Head(text) = CR
         THEN IF Len(text) >= 2 /\ text[2] = LF
              THEN <<LF>> \o UniversalNewlines(SubSeq(text, 3, Len(text)))
              ELSE <<LF>> \o UniversalNewlines(Tail(text))
         ELSE <<Head(text)>> \o UniversalNewlines(Tail(text))

---------------------------------------------------------------------------
(* read_file_content *)

\* A list with cp1252 before latin-1; C22 tells it from encodings.
encodings_cp1252_before == <<"utf-8", "gbk", "gb2312", "cp1252", "latin-1">>

encodings == <<"utf-8", "gbk", "gb2312", "latin-1", "cp1252">>

\* The for loop from its i-th candidate on.  data is the file's bytes and
\* oserror says whether open() or read() fails with an error that is not
\* a UnicodeDecodeError (permission denied, the file vanished).  The value
\* returned is text (none = TRUE is Python's None); tried and why record
\* the candidates the loop opened the file with and how it ended.
RECURSIVE ReadLoop(_, _, _)
ReadLoop(data, oserror, i) ==
    IF i > Len(encodings)
    THEN [none |-> TRUE, text |-> <<>>, tried |-> <<>>, why |-> "exhausted"]
    ELSE IF oserror
    THEN [none |-> TRUE, text |-> <<>>, tried |-> <<encodings[i]>>,
          why |-> "oserror"]
    ELSE LET d == Decode(encodings[i], data)
         IN  IF d.ok
             THEN [none |-> FALSE, text |-> UniversalNewlines(d.text),
                   tried |-> <<encodings[i]>>, why |-> "decoded"]
             ELSE LET r == ReadLoop(data, oserror, i + 1)
                  IN  [r EXCEPT !.tried = <<encodings[i]>> \o @]

read_file_content(data, oserror) == ReadLoop(data, oserror, 1)

---------------------------------------------------------------------------
(* The filesystem.  A node key is the sequence of components that leads to *)
(* the node from the server's working directory, which is <<>>; a key of   *)
(* ".." components only is an ancestor of the working directory.  The      *)
(* modelled filesystem holds directories and regular files, no symlinks.   *)

Absent == [kind |-> "none", data |-> <<>>]
Dir == [kind |-> "dir", data |-> <<>>]
File(bytes) == [kind |-> "file", data |-> bytes]

NoEnt == << <<>> >>           \* ENOENT: a component does not exist
NotDir == << <<>>, <<>> >>    \* ENOTDIR: a component is a regular file

IsAnchor(seg) == seg # <<>> /\ seg[1] = "/"

AllDotDot(key) == \A i \in 1..Len(key) : key[i] = DotDot

NodeAt(f, key) == IF key \in DOMAIN f THEN f[key] ELSE Absent

IsDirKey(f, key) ==
    /\ key \notin {NoEnt, NotDir}
    /\ \/ AllDotDot(key)
       \/ (Len(key) = 1 /\ IsAnchor(key[1]))
       \/ NodeAt(f, key).kind = "dir"

IsFileKey(f, key) == key \notin {NoEnt, NotDir} /\ NodeAt(f, key).kind = "file"

ExistsKey(f, key) == IsDirKey(f, key) \/ IsFileKey(f, key)

ParentKey(key) ==
    IF AllDotDot(key) THEN Append(key, DotDot)
    ELSE IF Len(key) = 1 /\ IsAnchor(key[1]) THEN key
    ELSE SubSeq(key, 1, Len(key) - 1)

\* The kernel's path walk from node cur along parts: every component that
\* is walked through must be a directory, and ".." is the parent of the
\* directory reached so far.
RECURSIVE Walk(_, _, _)
Walk(f, cur, parts) ==
    IF parts = <<>> THEN cur
    ELSE IF ~IsDirKey(f, cur)
         THEN IF IsFileKey(f, cur) THEN NotDir ELSE NoEnt
    ELSE LET p == Head(parts)
             nxt == IF IsAnchor(p) THEN <<p>>
                    ELSE IF p = DotDot THEN ParentKey(cur)
                    ELSE Append(cur, p)
         IN  Walk(f, nxt, Tail(parts))

Front(parts) == SubSeq(parts, 1, Len(parts) - 1)

\* Path.exists(), Path.is_file(), Path.is_dir(), Path.stat().st_size
PathExists(f, parts) == ExistsKey(f, Walk(f, <<>>, parts))
PathIsFile(f, parts) == IsFileKey(f, Walk(f, <<>>, parts))
PathIsDir(f, parts) == IsDirKey(f, Walk(f, <<>>, parts))
PathSize(f, parts) == Len(NodeAt(f, Walk(f, <<>>, parts)).data)

\* os.mkdir(path)
OsMkdir(f, parts) ==
    LET key == Walk(f, <<>>, parts)
    IN  IF key \in {NoEnt, NotDir}
        THEN [err |-> IF key = NoEnt THEN "FileNotFoundError"
                      ELSE "NotADirectoryError",
              fs |-> f]
        ELSE IF ExistsKey(f, key) \/ key \notin DOMAIN f
             THEN [err |-> "FileExistsError", fs |-> f]
        ELSE [err |-> "", fs |-> [f EXCEPT ![key] = Dir]]

\* Path.mkdir(parents=True, exist_ok=True): os.mkdir; when a parent is
\* missing, make the parent the same way and try once more; any other
\* OSError is ignored when the path is a directory.
RECURSIVE PathMkdir(_, _)
PathMkdir(f, parts) ==
    LET r == OsMkdir(f, parts)
    IN  IF r.err = "" THEN r
        ELSE IF r.err = "FileNotFoundError"
        THEN IF parts = <<>> \/ (Len(parts) = 1 /\ IsAnchor(parts[1]))
             THEN r
             ELSE LET up == PathMkdir(f, Front(parts))
                  IN  IF up.err # "" THEN up
                      ELSE LET again == OsMkdir(up.fs, parts)
                           IN  IF again.err \in {"", "FileNotFoundError"}
                               THEN again
                               ELSE IF PathIsDir(up.fs, parts)
                                    THEN [err |-> "", fs |-> up.fs]
                                    ELSE again
        ELSE IF PathIsDir(f, parts) THEN [err |-> "", fs |-> f]
             ELSE r

\* An open() that truncates in every mode; C5 tells it from OpenWrite.
OpenWrite_truncating(f, parts, mode, bytes) ==
    LET key == Walk(f, <<>>, parts)
    IN  IF key \in {NoEnt, NotDir}
        THEN [err |-> IF key = NoEnt THEN "FileNotFoundError"
                      ELSE "NotADirectoryError",
              fs |-> f]
        ELSE IF IsDirKey(f, key) \/ key \notin DOMAIN f
             THEN [err |-> "IsADirectoryError", fs |-> f]
        ELSE [err |-> "", fs |-> [f EXCEPT ![key] = File(bytes)]]

\* open(path, mode) followed by f.write(bytes), for mode 'w' and 'a'
OpenWrite(f, parts, mode, bytes) ==
    LET key == Walk(f, <<>>, parts)
    IN  IF key \in {NoEnt, NotDir}
        THEN [err |-> IF key = NoEnt THEN "FileNotFoundError"
                      ELSE "NotADirectoryError",
              fs |-> f]
        ELSE IF IsDirKey(f, key) \/ key \notin DOMAIN f
             THEN [err |-> "IsADirectoryError", fs |-> f]
        ELSE LET old == IF mode = "a" THEN NodeAt(f, key).data ELSE <<>>
             IN  [err |-> "", fs |-> [f EXCEPT ![key] = File(old \o bytes)]]

---------------------------------------------------------------------------
(* The tool handlers.  Each is an operator from the filesystem and the     *)
(* arguments to the filesystem it leaves, the report it returns (res.kind  *)
(* is the fixed part of the returned string, the other fields are what the *)
(* string is formatted from) and ops, the filesystem and process calls it  *)
(* made.  A handler that raises returns the report kind "raise".           *)

DEFAULT_ENCODING == "utf-8"

Report(f, kind, ops) ==
    [fs |-> f, res |-> [kind |-> kind, text |-> <<>>, n |-> 0], ops |-> ops]

\* read_file.  oserror: open() or read() of the file fails with an OSError
\* (the server may stat the file but not read it).
read_file(f, file_path, oserror) ==
    LET parts == PathParts(file_path)
    IN  IF ~is_safe_path(file_path, FALSE)
        THEN Report(f, "Error: Unsafe file path", {"resolve"})
        ELSE IF ~is_allowed_file(file_path)
        THEN Report(f, "Error: File type not allowed", {"resolve"})
        ELSE IF ~PathExists(f, parts)
        THEN Report(f, "Error: File does not exist", {"resolve", "stat"})
        ELSE IF ~PathIsFile(f, parts)
        THEN Report(f, "Error: Path is not a file", {"resolve", "stat"})
        ELSE IF PathSize(f, parts) > MAX_FILE_SIZE
        THEN Report(f, "Error: File too large", {"resolve", "stat"})
        ELSE LET content == read_file_content(
                                NodeAt(f, Walk(f, <<>>, parts)).data, oserror)
             IN  IF content.none
                 THEN Report(f,
                          "Error: Unable to read file with supported encodings",
                          {"resolve", "stat", "open_r"})
                 ELSE [fs |-> f,
                       res |-> [kind |-> "File:", text |-> content.text,
                                n |-> Len(content.text)],
                       ops |-> {"resolve", "stat", "open_r"}]

\* A write_file without the size check; C18 tells it from write_file.
write_file_unchecked(f, file_path, content, encoding) ==
    LET parts == PathParts(file_path)
        enc == Encode(encoding, content)
        made == PathMkdir(f, Front(parts))
        w == OpenWrite(made.fs, parts, "w", enc.bytes)
    IN  IF \/ ~is_safe_path(file_path, FALSE) \/ ~is_allowed_file(file_path)
           \/ enc.err # "" \/ made.err # "" \/ w.err # ""
        THEN Report(f, "Error writing file", {"resolve"})
        ELSE [fs |-> w.fs,
              res |-> [kind |-> "Successfully wrote",
                       text |-> <<>>, n |-> Len(content)],
              ops |-> {"resolve", "mkdir", "open_w"}]

\* write_file
write_file(f, file_path, content, encoding) ==
    LET parts == PathParts(file_path)
        enc == Encode(encoding, content)
    IN  IF ~is_safe_path(file_path, FALSE)
        THEN Report(f, "Error: Unsafe file path", {"resolve"})
        ELSE IF ~is_allowed_file(file_path)
        THEN Report(f, "Error: File type not allowed", {"resolve"})
        ELSE IF enc.err # ""
        THEN [fs |-> f,
              res |-> [kind |-> "raise", text |-> enc.err, n |-> 0],
              ops |-> {"resolve"}]
        ELSE IF Len(enc.bytes) > MAX_FILE_SIZE
        THEN Report(f, "Error: Content too large", {"resolve"})
        ELSE LET made == PathMkdir(f, Front(parts))
             IN  IF made.err # ""
                 THEN [fs |-> made.fs,
                       res |-> [kind |-> "Error writing file",
                                text |-> made.err, n |-> 0],
                       ops |-> {"resolve", "mkdir"}]
                 ELSE LET w == OpenWrite(made.fs, parts, "w", enc.bytes)
                      IN  IF w.err # ""
                          THEN [fs |-> w.fs,
                                res |-> [kind |-> "Error writing file",
                                         text |-> w.err, n |-> 0],
                                ops |-> {"resolve", "mkdir", "open_w"}]
                          ELSE [fs |-> w.fs,
                                res |-> [kind |-> "Successfully wrote",
                                         text |-> <<>>, n |-> Len(content)],
                                ops |-> {"resolve", "mkdir", "open_w"}]

\* append_file up to the size check: the report of the check that fails, or
\* the kind "admitted" when the size found by stat() leaves room for the
\* content
append_file_check(f, file_path, content, encoding) ==
    LET parts == PathParts(file_path)
        enc == Encode(encoding, content)
        current_size == IF PathExists(f, parts) THEN PathSize(f, parts) ELSE 0
    IN  IF ~is_safe_path(file_path, FALSE)
        THEN Report(f, "Error: Unsafe file path", {"resolve"})
        ELSE IF ~is_allowed_file(file_path)
        THEN Report(f, "Error: File type not allowed", {"resolve"})
        ELSE IF enc.err # ""
        THEN [fs |-> f,
              res |-> [kind |-> "Error appending to file",
                       text |-> enc.err, n |-> 0],
              ops |-> {"resolve", "stat"}]
        ELSE IF current_size + Len(enc.bytes) > MAX_FILE_SIZE
        THEN Report(f, "Error: File would exceed size limit",
                    {"resolve", "stat"})
        ELSE Report(f, "admitted", {"resolve", "stat"})

\* A write that looks at the size again and refuses, as a write under a lock
\* that covers the check would; C19 tells it from append_file_write.
append_file_write_rechecked(f, file_path, content, encoding) ==
    LET parts == PathParts(file_path)
        enc == Encode(encoding, content)
        current_size == IF PathExists(f, parts) THEN PathSize(f, parts) ELSE 0
    IN  IF current_size + Len(enc.bytes) > MAX_FILE_SIZE
        THEN Report(f, "Error: File would exceed size limit",
                    {"resolve", "stat"})
        ELSE [fs |-> OpenWrite(PathMkdir(f, Front(parts)).fs, parts, "a",
                               enc.bytes).fs,
              res |-> [kind |-> "Successfully appended",
                       text |-> <<>>, n |-> Len(content)],
              ops |-> {"resolve", "stat", "mkdir", "open_a"}]

\* append_file after the size check: mkdir of the parents, open in mode 'a'
\* and write, on the filesystem as it is then
append_file_write(f, file_path, content, encoding) ==
    LET parts == PathParts(file_path)
        enc == Encode(encoding, content)
        made == PathMkdir(f, Front(parts))
    IN  IF made.err # ""
        THEN [fs |-> made.fs,
              res |-> [kind |-> "Error appending to file",
                       text |-> made.err, n |-> 0],
              ops |-> {"resolve", "stat", "mkdir"}]
        ELSE LET w == OpenWrite(made.fs, parts, "a", enc.bytes)
             IN  IF w.err # ""
                 THEN [fs |-> w.fs,
                       res |-> [kind |-> "Error appending to file",
                                text |-> w.err, n |-> 0],
                       ops |-> {"resolve", "stat", "mkdir", "open_a"}]
                 ELSE [fs |-> w.fs,
                       res |-> [kind |-> "Successfully appended",
                                text |-> <<>>, n |-> Len(content)],
                       ops |-> {"resolve", "stat", "mkdir", "open_a"}]

\* append_file: nothing else runs in the server between the check and the
\* write
append_file(f, file_path, content, encoding) ==
    LET checked == append_file_check(f, file_path, content, encoding)
    IN  IF checked.res.kind # "admitted" THEN checked
        ELSE append_file_write(f, file_path, content, encoding)

\* A create_directory whose mkdir has exist_ok=False; C20 tells it from
\* create_directory.
create_directory_exclusive(f, directory_path) ==
    IF ~is_safe_path(directory_path, FALSE)
    THEN Report(f, "Error: Unsafe directory path", {"resolve"})
    ELSE LET made == PathMkdir(f, PathParts(directory_path))
         IN  IF made.err # "" \/ PathExists(f, PathParts(directory_path))
             THEN [fs |-> f,
                   res |-> [kind |-> "Error creating directory",
                            text |-> "FileExistsError", n |-> 0],
                   ops |-> {"resolve", "mkdir"}]
             ELSE Report(made.fs, "Successfully created directory",
                         {"resolve", "mkdir"})

\* create_directory
create_directory(f, directory_path) ==
    IF ~is_safe_path(directory_path, FALSE)
    THEN Report(f, "Error: Unsafe directory path", {"resolve"})
    ELSE LET made == PathMkdir(f, PathParts(directory_path))
         IN  IF made.err # ""
             THEN [fs |-> made.fs,
                   res |-> [kind |-> "Error creating directory",
                            text |-> made.err, n |-> 0],
                   ops |-> {"resolve", "mkdir"}]
             ELSE Report(made.fs, "Successfully created directory",
                         {"resolve", "mkdir"})

\* list_directory
list_directory(f, directory_path, show_hidden) ==
    LET parts == PathParts(directory_path)
        key == Walk(f, <<>>, parts)
        names == {k[Len(k)] : k \in {c \in DOMAIN f :
                                        /\ Len(c) = Len(key) + 1
                                        /\ Front(c) = key
                                        /\ f[c].kind # "none"}}
        shown == {nm \in names : show_hidden \/ ~StartsWith(nm, <<".">>)}
        sorted == SortSeq(
                      CHOOSE q \in [1..Cardinality(shown) -> shown] :
                          \A i, j \in 1..Cardinality(shown) :
                              i # j => q[i] # q[j],
                      StrLess)
        items == [i \in 1..Len(sorted) |->
                      LET item == f[Append(key, sorted[i])]
                      IN  <<IF item.kind = "file" THEN "FILE" ELSE "DIR ",
                            sorted[i],
                            IF item.kind = "file" THEN Len(item.data) ELSE 0>>]
    IN  IF ~is_safe_path(directory_path, FALSE)
        THEN Report(f, "Error: Unsafe directory path", {"resolve"})
        ELSE IF ~PathExists(f, parts)
        THEN Report(f, "Error: Directory does not exist", {"resolve", "stat"})
        ELSE IF ~PathIsDir(f, parts)
        THEN Report(f, "Error: Path is not a directory", {"resolve", "stat"})
        ELSE IF items = <<>>
        THEN Report(f, "Directory is empty", {"resolve", "stat", "iterdir"})
        ELSE [fs |-> f,
              res |-> [kind |-> "Contents of:", text |-> items,
                       n |-> Len(items)],
              ops |-> {"resolve", "stat", "iterdir"}]

\* get_file_info (the timestamps and the permission flags are left out)
get_file_info(f, file_path) ==
    LET parts == PathParts(file_path)
    IN  IF ~is_safe_path(file_path, FALSE)
        THEN Report(f, "Error: Unsafe path", {"resolve"})
        ELSE IF ~PathExists(f, parts)
        THEN Report(f, "Error: Path does not exist", {"resolve", "stat"})
        ELSE [fs |-> f,
              res |-> [kind |-> "Path:",
                       text |-> <<PathName(file_path),
                                  IF PathIsFile(f, parts) THEN "File"
                                  ELSE "Directory",
                                  IF PathIsFile(f, parts)
                                  THEN PathSuffix(file_path) ELSE <<>> >>,
                       n |-> IF PathIsFile(f, parts) THEN PathSize(f, parts)
                             ELSE 0],
              ops |-> {"resolve", "stat"}]

\* A get_current_directory that makes the directory "d"; C23 tells it
\* from get_current_directory.
get_current_directory_making(f) ==
    Report([f EXCEPT ![<< <<"d">> >>] = Dir], "Current working directory:",
           {"getcwd", "mkdir"})

\* get_current_directory
get_current_directory(f) == Report(f, "Current working directory:", {"getcwd"})

\* search_files_ag.  probe is how subprocess.run(['ag', '--version'],
\* check=True) ends on this host and found is how the search run ends;
\* both are the environment's.
NoSearch == [kind |-> "none", returncode |-> 0, stdout |-> ""]

\* exit statuses of ag: matches, no match, two errors, and killed by a
\* signal (which subprocess reports as a negative returncode)
AgExitCodes == {-9, 0, 1, 2, 3}

SearchOutcomes ==
    [kind : {"exit"}, returncode : AgExitCodes, stdout : {"", "hit"}]
    \cup {[kind |-> "TimeoutExpired", returncode |-> 0, stdout |-> ""],
          [kind |-> "OSError", returncode |-> 0, stdout |-> ""]}

\* (probe, found): the search runs only after a probe that succeeded.  The
\* probe "hang" is an ag --version that does not end.
AgOutcomes ==
    ({"FileNotFoundError", "CalledProcessError", "PermissionError", "hang"}
        \X {NoSearch})
    \cup ({"ok"} \X SearchOutcomes)

\* A mapping that takes every non-zero exit status for an error; C15 tells
\* it from SearchReport.
SearchReport_strict(f, found, ops) ==
    IF found.kind = "TimeoutExpired"
    THEN Report(f, "Error: Search timed out after 30 seconds", ops)
    ELSE IF found.kind # "exit"
    THEN Report(f, "Error executing ag search", ops)
    ELSE IF found.returncode > 0
    THEN Report(f, "Error running ag", ops)
    ELSE IF found.stdout = ""
    THEN Report(f, "No matches found for pattern:", ops)
    ELSE [fs |-> f,
          res |-> [kind |-> "Search Results for:",
                   text |-> found.stdout, n |-> 1],
          ops |-> ops]

\* search_files_ag from the search run on: the report for what
\* subprocess.run(ag_cmd, ..., timeout=30) raised or returned
SearchReport(f, found, ops) ==
    IF found.kind = "TimeoutExpired"
    THEN Report(f, "Error: Search timed out after 30 seconds", ops)
    ELSE IF found.kind # "exit"
    THEN Report(f, "Error executing ag search", ops)
    ELSE IF found.returncode > 1
    THEN Report(f, "Error running ag", ops)
    ELSE IF found.returncode = 1 \/ found.stdout = ""
    THEN Report(f, "No matches found for pattern:", ops)
    ELSE [fs |-> f,
          res |-> [kind |-> "Search Results for:",
                   text |-> found.stdout, n |-> 1],
          ops |-> ops]

search_files_ag(f, pattern, search_path, probe, found) ==
    LET parts == PathParts(search_path)
        checked == {"resolve", "stat"}
    IN  IF ~is_safe_path(search_path, FALSE)
        THEN Report(f, "Error: Unsafe search path", {"resolve"})
        ELSE IF ~PathExists(f, parts)
        THEN Report(f, "Error: Search path does not exist", checked)
        ELSE IF ~PathIsDir(f, parts)
        THEN Report(f, "Error: Search path is not a directory", checked)
        ELSE IF probe \in {"FileNotFoundError", "CalledProcessError"}
        THEN Report(f, "Error: 'ag' (The Silver Searcher) is not installed",
                    checked \cup {"spawn ag --version"})
        ELSE IF probe = "hang"
        THEN Report(f, "(blocked)", checked \cup {"spawn ag --version"})
        ELSE IF probe # "ok"
        THEN [fs |-> f,
              res |-> [kind |-> "raise", text |-> probe, n |-> 0],
              ops |-> checked \cup {"spawn ag --version"}]
        ELSE SearchReport(f, found,
                          checked \cup {"spawn ag --version", "spawn ag"})

\* execute_command up to the call of execute_system_command: the report of
\* the check that fails, or the kind "admitted" when all three pass.
execute_command_checks(f, command, working_directory) ==
    LET parts == PathParts(working_directory)
        split == Tokens(command, Whitespace)
    IN  IF ~is_safe_command(command)
        THEN [fs |-> f,
              res |-> [kind |->
                           "Error: Command not allowed for security reasons",
                       text |-> IF split # <<>> THEN split[1]
                                ELSE <<"e","m","p","t","y">>,
                       n |-> 0],
              ops |-> {}]
        ELSE IF ~is_safe_path(working_directory, FALSE)
        THEN Report(f, "Error: Unsafe working directory", {"resolve"})
        ELSE IF ~PathExists(f, parts) \/ ~PathIsDir(f, parts)
        THEN Report(f,
                 "Error: Working directory does not exist or is not a directory",
                 {"resolve", "stat"})
        ELSE Report(f, "admitted", {"resolve", "stat"})

---------------------------------------------------------------------------
(* Inputs of the model *)

PathChars == {".", "/", "m", "d", "M"}
CmdChars == {"r", "m", "R", " ", ";", "&"}
ByteAlphabet == {97, 13, 10, 195, 169, 214, 208, 128}

PathStrings == SeqsUpTo(PathChars, MaxPathLen)
CmdStrings == SeqsUpTo(CmdChars, MaxCmdLen)
ByteStrings == SeqsUpTo(ByteAlphabet, MaxFileBytes)

\* The paths given to the tools: a file in a directory that may have to be
\* made, that directory, a name with a suffix that is not allowed, and two
\* paths with a ".." component.
P_file == <<"d", "/", "m", ".", "M", "D">>
P_dir == <<"d">>
P_other == <<"m", ".", "d">>
P_up_file == <<".", ".", "/", "m", ".", "m", "d">>
P_up == <<".", ".">>

PathInputs == {P_file, P_dir, P_other, P_up_file, P_up}

\* "a", "\r" and U+00E9, which takes two bytes in UTF-8 and has no ASCII
\* encoding
ContentChars == {97, CR, 233}
Contents == {<<c>> : c \in ContentChars}

\* the last one is the name of no codec
ToolEncodings == {"utf-8", "ascii", "utf-9"}

\* a content whose UTF-8 encoding is longer than the ceiling
LongContent == [i \in 1..MAX_FILE_SIZE |-> 233]

\* (content, encoding) of a write or an append: every content in UTF-8, and
\* for the other two encodings a content ASCII has and one it has not
Writes ==
    ((Contents \cup {LongContent}) \X {"utf-8"})
    \cup ({<<97>>, <<233>>} \X {"ascii"})
    \cup ({<<97>>} \X {"utf-9"})

\* (path, (probe, found)) of a search: every path with an ag that finds
\* something, and the directory with every ag
SearchInputs ==
    (PathInputs \X {<<"ok", [kind |-> "exit", returncode |-> 0,
                             stdout |-> "hit"]>>})
    \cup ({P_dir} \X AgOutcomes)

Cmd_empty == <<>>
Cmd_blocked == <<"R", "m">>
Cmd_ok == <<"l", "s">>
Cmd_later == <<"l", "s", " ", "&", "&", " ", "r", "m">>

CmdInputs == {Cmd_empty, Cmd_blocked, Cmd_ok, Cmd_later}

Timeouts == 0..MaxTimeout

Nodes == { <<P_dir>>, <<P_dir, <<"m", ".", "M", "D">> >>, <<P_other>>,
           <<DotDot, <<"m", ".", "m", "d">> >> }

EmptyFs == [k \in Nodes |-> Absent]

\* a filesystem that already holds a file larger than the ceiling
BigFs ==
    [EmptyFs EXCEPT
        ![<<P_dir>>] = Dir,
        ![<<P_dir, <<"m", ".", "M", "D">> >>] =
            File([i \in 1..(MAX_FILE_SIZE + 1) |-> 97])]

---------------------------------------------------------------------------
(* execute_system_command: subprocess.run(command, shell=True, cwd=cwd,    *)
(* capture_output=True, timeout=timeout) step by step.  The child is the   *)
(* shell; bg says that a descendant of the shell still holds the output    *)
(* pipes, which communicate() reads to their end.                          *)

NoExit == [code |-> 0, stdout |-> "", stderr |-> ""]
NoOutcome == [success |-> FALSE, returncode |-> 0, stdout |-> "",
              stderr |-> "", error |-> ""]

IdleRun ==
    [pc |-> "idle", command |-> <<>>, cwd |-> <<>>, timeout |-> 0,
     elapsed |-> 0, child |-> "none", by |-> "", prog |-> "", bg |-> FALSE,
     exit |-> NoExit, exitAt |-> -1, outcome |-> NoOutcome]

\* how a program that was found may end
Exits == [code : {0, 7}, stdout : {"", "out"}, stderr : {""}]

\* what the shell does when the program is missing or cannot be executed
ShellExit(prog) ==
    IF prog = "missing"
    THEN [code |-> 127, stdout |-> "", stderr |-> "not found"]
    ELSE [code |-> 126, stdout |-> "", stderr |-> "Permission denied"]

\* communicate() is finished: the child has exited and the pipes are at
\* their end
Finished(r) == r.child = "exited" /\ ~r.bg

\* The dict returned on normal termination
Completed(r) ==
    [success |-> TRUE, returncode |-> r.exit.code, stdout |-> r.exit.stdout,
     stderr |-> r.exit.stderr, error |-> ""]

\* The dict returned from "except subprocess.TimeoutExpired"
TimedOut(r) ==
    [success |-> FALSE, returncode |-> -1, stdout |-> "", stderr |-> "",
     error |-> "Command timed out"]

\* The dict returned from "except Exception"
Failed(r, e) ==
    [success |-> FALSE, returncode |-> -1, stdout |-> "", stderr |-> "",
     error |-> e]

\* A handler of TimeoutExpired that leaves the child alone; C7 tells it from
\* KillChild.
KillChild_none(r) == r

\* process.kill() in subprocess.run's handler of TimeoutExpired: SIGKILL to
\* the child, nothing when the child has already exited
KillChild(r) ==
    IF r.child = "running" THEN [r EXCEPT !.child = "killed", !.by = "kill"]
    ELSE r

\* execute_command from the dict on: the report
FormatResult(result) ==
    [kind |-> "Command:",
     n |-> result.returncode,
     text |-> IF ~result.success THEN << <<"Error:", result.error>> >>
              ELSE (IF result.stdout # ""
                    THEN << <<"Standard Output:", result.stdout>> >>
                    ELSE <<>>)
                   \o (IF result.stderr # ""
                       THEN << <<"Error Output:", result.stderr>> >>
                       ELSE <<>>)]

---------------------------------------------------------------------------
(* The server.  FastMCP runs the handlers on one event loop and no handler *)
(* awaits anything that yields to the loop, so a handler runs from its     *)
(* call to its return without another handler in between; subprocess.run  *)
(* blocks the loop's thread while the child runs.                          *)

NoInput == [kind |-> "none"]
NoOutput == [done |-> FALSE]
NoCall == [tool |-> "none", args |-> [path |-> <<>>],
           res |-> [kind |-> "", text |-> <<>>, n |-> 0], ops |-> {}]

Invoke(tool, args, r) ==
    /\ run.pc = "idle"
    /\ fs' = r.fs
    /\ last' = [tool |-> tool, args |-> args, res |-> r.res, ops |-> r.ops]
    /\ UNCHANGED <<gIn, gOut, run>>

ReadFile ==
    \E p \in PathInputs, oserror \in BOOLEAN :
        Invoke("read_file", [path |-> p, oserror |-> oserror],
               read_file(fs, p, oserror))

WriteFile ==
    \E p \in PathInputs, w \in Writes :
        Invoke("write_file", [path |-> p, content |-> w[1], encoding |-> w[2]],
               write_file(fs, p, w[1], w[2]))

AppendFile ==
    \E p \in PathInputs, w \in Writes :
        Invoke("append_file", [path |-> p, content |-> w[1], encoding |-> w[2]],
               append_file(fs, p, w[1], w[2]))

ListDirectory ==
    \E p \in PathInputs, h \in BOOLEAN :
        Invoke("list_directory", [path |-> p, show_hidden |-> h],
               list_directory(fs, p, h))

GetFileInfo ==
    \E p \in PathInputs :
        Invoke("get_file_info", [path |-> p], get_file_info(fs, p))

GetCurrentDirectory ==
    Invoke("get_current_directory", [path |-> <<>>], get_current_directory(fs))

CreateDirectory ==
    \E p \in PathInputs :
        Invoke("create_directory", [path |-> p], create_directory(fs, p))

\* search_files_ag.  The probe is run without a timeout: when it does not
\* end, subprocess.run does not return and the server's thread stays in it
\* (pc "probe", which no step leaves).
SearchFilesAg ==
    \E in \in SearchInputs :
        LET p == in[1]
            ag == in[2]
            r == search_files_ag(fs, <<"m">>, p, ag[1], ag[2])
        IN  /\ run.pc = "idle"
            /\ fs' = r.fs
            /\ last' = [tool |-> "search_files_ag",
                        args |-> [path |-> p, pattern |-> <<"m">>,
                                  probe |-> ag[1], found |-> ag[2]],
                        res |-> r.res, ops |-> r.ops]
            /\ run' = IF r.res.kind = "(blocked)"
                      THEN [IdleRun EXCEPT !.pc = "probe"]
                      ELSE run
            /\ UNCHANGED <<gIn, gOut>>

\* execute_command, from the call to the await of execute_system_command
ExecuteCommand ==
    \E c \in CmdInputs, p \in PathInputs, t \in Timeouts :
        LET r == execute_command_checks(fs, c, p)
            args == [path |-> p, command |-> c]
        IN  /\ run.pc = "idle"
            /\ fs' = fs
            /\ UNCHANGED <<gIn, gOut>>
            /\ IF r.res.kind = "admitted"
               THEN /\ run' = [IdleRun EXCEPT !.pc = "spawn", !.command = c,
                                              !.cwd = PathParts(p),
                                              !.timeout = t]
                    /\ last' = [tool |-> "execute_command", args |-> args,
                                res |-> [kind |-> "(running)", text |-> <<>>,
                                         n |-> 0],
                                ops |-> r.ops]
               ELSE /\ run' = run
                    /\ last' = [tool |-> "execute_command", args |-> args,
                                res |-> r.res, ops |-> r.ops]

\* Popen: the shell starts, or fork/exec of the shell fails
Spawn ==
    /\ run.pc = "spawn"
    /\ \/ \E prog \in {"found", "missing", "noexec"} :
            /\ run' = [run EXCEPT !.pc = "wait", !.child = "running",
                                  !.prog = prog]
            /\ last' = [last EXCEPT !.ops = @ \cup {"spawn"}]
       \/ /\ run' = [run EXCEPT !.pc = "format",
                                !.outcome = Failed(run, "OSError")]
          /\ last' = last
    /\ UNCHANGED <<gIn, gOut, fs>>

\* the shell exits by itself
ChildExit ==
    /\ run.pc \in {"wait", "expired", "reap"}
    /\ run.child = "running"
    /\ \E x \in (IF run.prog = "found" THEN Exits ELSE {ShellExit(run.prog)}) :
           run' = [run EXCEPT !.child = "exited", !.by = "self", !.exit = x,
                              !.exitAt = run.elapsed]
    /\ UNCHANGED <<gIn, gOut, fs, last>>

\* the shell starts a descendant that keeps the output pipes ("cmd &")
BgStart ==
    /\ run.pc = "wait"
    /\ run.child = "running"
    /\ run.prog = "found"
    /\ ~run.bg
    /\ run' = [run EXCEPT !.bg = TRUE]
    /\ UNCHANGED <<gIn, gOut, fs, last>>

\* that descendant ends
BgEnd ==
    /\ run.pc = "wait"
    /\ run.bg
    /\ run' = [run EXCEPT !.bg = FALSE]
    /\ UNCHANGED <<gIn, gOut, fs, last>>

\* time passes while communicate() waits
Tick ==
    /\ run.pc = "wait"
    /\ ~Finished(run)
    /\ run.elapsed < run.timeout
    /\ run' = [run EXCEPT !.elapsed = @ + 1]
    /\ UNCHANGED <<gIn, gOut, fs, last>>

\* communicate() returns, subprocess.run returns the CompletedProcess
Collect ==
    /\ run.pc = "wait"
    /\ Finished(run)
    /\ run' = [run EXCEPT !.pc = "format", !.child = "reaped",
                          !.outcome = Completed(run)]
    /\ UNCHANGED <<gIn, gOut, fs, last>>

\* communicate() raises TimeoutExpired
Expire ==
    /\ run.pc = "wait"
    /\ ~Finished(run)
    /\ run.elapsed = run.timeout
    /\ run' = [run EXCEPT !.pc = "expired"]
    /\ UNCHANGED <<gIn, gOut, fs, last>>

\* subprocess.run's handler: process.kill()
Kill ==
    /\ run.pc = "expired"
    /\ run' = [KillChild(run) EXCEPT !.pc = "reap"]
    /\ UNCHANGED <<gIn, gOut, fs, last>>

\* subprocess.run's handler: process.wait() returns once the child has
\* terminated, the exception is raised again and execute_system_command
\* catches it
Reap ==
    /\ run.pc = "reap"
    /\ run.child \in {"killed", "exited"}
    /\ run' = [run EXCEPT !.pc = "format", !.child = "reaped",
                          !.outcome = TimedOut(run)]
    /\ UNCHANGED <<gIn, gOut, fs, last>>

\* execute_command formats the dict and returns
Return ==
    /\ run.pc = "format"
    /\ last' = [last EXCEPT !.res = FormatResult(run.outcome)]
    /\ run' = IdleRun
    /\ UNCHANGED <<gIn, gOut, fs>>

Init ==
    /\ gIn = NoInput
    /\ gOut = NoOutput
    /\ fs \in {EmptyFs, BigFs}
    /\ last = NoCall
    /\ run = IdleRun

Next ==
    \/ ReadFile \/ WriteFile \/ AppendFile \/ ListDirectory \/ GetFileInfo
    \/ GetCurrentDirectory \/ CreateDirectory \/ SearchFilesAg
    \/ ExecuteCommand
    \/ Spawn \/ ChildExit \/ BgStart \/ BgEnd \/ Tick
    \/ Collect \/ Expire \/ Kill \/ Reap \/ Return

Spec == Init /\ [][Next]_vars

---------------------------------------------------------------------------
(* execute_command alone, with the scheduling the runner can count on: the *)
(* server's thread keeps running and time passes.  Nothing makes the child *)
(* or its descendants ever end by themselves.                              *)

RunInit ==
    /\ gIn = NoInput
    /\ gOut = NoOutput
    /\ fs = [EmptyFs EXCEPT ![<<P_dir>>] = Dir]
    /\ last = NoCall
    /\ run = IdleRun

RunNext ==
    \/ ExecuteCommand \/ GetCurrentDirectory
    \/ Spawn \/ ChildExit \/ BgStart \/ BgEnd \/ Tick
    \/ Collect \/ Expire \/ Kill \/ Reap \/ Return

RunSpec ==
    /\ RunInit
    /\ [][RunNext]_vars
    /\ WF_vars(Spawn) /\ WF_vars(Tick) /\ WF_vars(Collect)
    /\ WF_vars(Expire) /\ WF_vars(Kill) /\ WF_vars(Reap) /\ WF_vars(Return)

---------------------------------------------------------------------------
(* The guards and the reader alone, on every string of a bounded length *)

GuardInit ==
    /\ gIn \in [kind : {"path"}, s : PathStrings, raises : BOOLEAN]
              \cup [kind : {"command"}, s : CmdStrings]
              \cup [kind : {"file"}, s : ByteStrings, oserror : BOOLEAN]
    /\ gOut = NoOutput
    /\ fs = EmptyFs
    /\ last = NoCall
    /\ run = IdleRun

CheckPath ==
    /\ gIn.kind = "path"
    /\ ~gOut.done
    /\ gOut' = [done |-> TRUE,
                safe |-> is_safe_path(gIn.s, gIn.raises),
                allowed |-> is_allowed_file(gIn.s)]
    /\ UNCHANGED <<gIn, fs, last, run>>

CheckCommand ==
    /\ gIn.kind = "command"
    /\ ~gOut.done
    /\ gOut' = [done |-> TRUE, safe |-> is_safe_command(gIn.s)]
    /\ UNCHANGED <<gIn, fs, last, run>>

\* a filesystem whose file at P_file holds data
HoldingFs(data) ==
    [EmptyFs EXCEPT
        ![<<P_dir>>] = Dir,
        ![<<P_dir, <<"m", ".", "M", "D">> >>] = File(data)]

\* read_file_content on the bytes, and read_file on a file that holds them
ReadContent ==
    /\ gIn.kind = "file"
    /\ ~gOut.done
    /\ gOut' = [done |-> TRUE,
                content |-> read_file_content(gIn.s, gIn.oserror),
                report |-> read_file(HoldingFs(gIn.s), P_file,
                                     gIn.oserror).res]
    /\ UNCHANGED <<gIn, fs, last, run>>

GuardNext == CheckPath \/ CheckCommand \/ ReadContent

GuardSpec == GuardInit /\ [][GuardNext]_vars

---------------------------------------------------------------------------
(* Two processes of the server on one filesystem, as when two clients each *)
(* start the server over stdio.  Inside one process a handler runs from    *)
(* its call to its return; between the processes the system calls of two   *)
(* append_file handlers interleave: stat() for the size check, then        *)
(* mkdir(), open() and write().  gIn holds the call each process is in.    *)

Servers == {"A", "B"}

IdleServer == [pc |-> "idle", path |-> <<>>, content |-> <<>>,
               encoding |-> ""]

AppendInit ==
    /\ gIn = [s \in Servers |-> IdleServer]
    /\ gOut = NoOutput
    /\ fs = EmptyFs
    /\ last = NoCall
    /\ run = IdleRun

\* append_file in process s up to the size check; a call that is refused
\* returns at once
AppendCheck(s) ==
    \E p \in PathInputs, w \in Writes :
        LET r == append_file_check(fs, p, w[1], w[2])
        IN  /\ gIn[s].pc = "idle"
            /\ IF r.res.kind = "admitted"
               THEN /\ gIn' = [gIn EXCEPT ![s] =
                                  [pc |-> "checked", path |-> p,
                                   content |-> w[1], encoding |-> w[2]]]
                    /\ last' = last
               ELSE /\ gIn' = gIn
                    /\ last' = [tool |-> "append_file",
                                args |-> [path |-> p, content |-> w[1],
                                          encoding |-> w[2]],
                                res |-> r.res, ops |-> r.ops]
            /\ UNCHANGED <<gOut, fs, run>>

\* append_file in process s from mkdir on, and its return
AppendWrite(s) ==
    LET c == gIn[s]
        r == append_file_write(fs, c.path, c.content, c.encoding)
    IN  /\ c.pc = "checked"
        /\ fs' = r.fs
        /\ last' = [tool |-> "append_file",
                    args |-> [path |-> c.path, content |-> c.content,
                              encoding |-> c.encoding],
                    res |-> r.res, ops |-> r.ops]
        /\ gIn' = [gIn EXCEPT ![s] = IdleServer]
        /\ UNCHANGED <<gOut, run>>

AppendNext == \E s \in Servers : AppendCheck(s) \/ AppendWrite(s)

AppendSpec == AppendInit /\ [][AppendNext]_vars

---------------------------------------------------------------------------
(* The command guard (C4) *)

\* a and b are the same word when the case of letters is ignored
SameWord(a, b) ==
    /\ Len(a) = Len(b)
    /\ \A i \in 1..Len(a) :
           \/ a[i] = b[i]
           \/ \E k \in 1..26 : {a[i], b[i]} = {UpperChars[k], LowerChars[k]}

IsBlockedWord(t) == \E b \in BLOCKED_COMMANDS : SameWord(t, b)

\* s[i..j] is a whitespace-delimited token of s
IsTokenAt(s, i, j) ==
    /\ i <= j
    /\ \A k \in i..j : s[k] \notin Whitespace
    /\ (i = 1 \/ s[i - 1] \in Whitespace)
    /\ (j = Len(s) \/ s[j + 1] \in Whitespace)

\* s[i..j] is the first whitespace-delimited token of s
IsFirstTokenAt(s, i, j) ==
    /\ IsTokenAt(s, i, j)
    /\ \A k \in 1..(i - 1) : s[k] \in Whitespace

\* C4: is_safe_command rejects a command that is empty or all whitespace,
\* rejects a command whose first whitespace-delimited token is, with the
\* case of letters ignored, a word of the denylist, and accepts every other
\* command, whatever the tokens after the first one are.
C4_FirstTokenDecides ==
    (gIn.kind = "command" /\ gOut.done) =>
        LET s == gIn.s
            blank == \A k \in 1..Len(s) : s[k] \in Whitespace
        IN  /\ blank => ~gOut.safe
            /\ \A i, j \in 1..Len(s) :
                   IsFirstTokenAt(s, i, j) =>
                       (gOut.safe <=> ~IsBlockedWord(SubSeq(s, i, j)))

\* an accepted command with a denylisted token after a ";"
C4_AcceptedWithLaterBlockedToken ==
    /\ gIn.kind = "command"
    /\ gOut.done
    /\ gOut.safe
    /\ \E i, j \in 2..Len(gIn.s) :
           /\ IsTokenAt(gIn.s, i, j)
           /\ IsBlockedWord(SubSeq(gIn.s, i, j))
           /\ \E k \in 1..(i - 1) : gIn.s[k] = ";"

---------------------------------------------------------------------------
(* The encoding-fallback reader (C10) *)

FixedOrder == <<"utf-8", "gbk", "gb2312", "latin-1", "cp1252">>

\* the first candidate of the fixed order that decodes all of data, 0 when
\* there is none
FirstDecoding(data) ==
    LET ok == {k \in 1..Len(FixedOrder) : Decode(FixedOrder[k], data).ok}
    IN  IF ok = {} THEN 0 ELSE CHOOSE k \in ok : \A j \in ok : k <= j

\* C10: read_file_content tries utf-8, gbk, gb2312, latin-1, cp1252 in this
\* order and returns the decode of the first candidate that decodes the
\* whole file; no candidate after that one is used.
C10_ReturnsFirstDecode ==
    (gIn.kind = "file" /\ gOut.done /\ ~gIn.oserror) =>
        LET k == FirstDecoding(gIn.s)
        IN  k # 0 =>
                /\ ~gOut.content.none
                /\ gOut.content.text = Decode(FixedOrder[k], gIn.s).text
                /\ gOut.content.tried = SubSeq(FixedOrder, 1, k)

\* a file that is not UTF-8 and is GBK: the text returned is the GBK text
C10_GbkFallback ==
    /\ gIn.kind = "file"
    /\ gOut.done
    /\ ~gIn.oserror
    /\ gIn.s = <<214, 208>>
    /\ ~Decode("utf-8", gIn.s).ok
    /\ ~gOut.content.none
    /\ gOut.content.text = <<20013>>
    /\ gOut.content.tried = <<"utf-8", "gbk">>

---------------------------------------------------------------------------
(* The bounded process runner (C7, C8, C9) *)

TimeoutReport == << <<"Error:", "Command timed out">> >>

\* the timeout has elapsed and the child has not terminated
ExpiredWithChild == run.pc = "expired" /\ run.child = "running"

\* execute_system_command has its outcome: a timeout, the child terminated
TimeoutOutcome ==
    /\ run.pc = "format"
    /\ run.child = "reaped"
    /\ ~run.outcome.success
    /\ run.outcome.error = "Command timed out"

\* the call has returned the report of a timeout
TimeoutReturned ==
    /\ run.pc = "idle"
    /\ last.tool = "execute_command"
    /\ last.res.text = TimeoutReport

\* C7: whenever the child has not terminated when the timeout elapses, the
\* call eventually returns, its outcome is the failure that names the
\* timeout, and the child has been terminated when the outcome is there.
C7_TimeoutKillsAndReturns ==
    /\ ExpiredWithChild ~> TimeoutOutcome
    /\ TimeoutOutcome ~> TimeoutReturned

\* a timeout outcome after the runner has killed a child that was running
C7_KilledOnTimeout == TimeoutOutcome /\ run.by = "kill"

\* the child has exited by itself strictly before the timeout
ExitedEarly == run.by = "self" /\ run.exitAt < run.timeout

\* C8: whenever the spawned process terminates by itself before the
\* timeout, with any exit code, the outcome has success True, the exit code
\* of the process as returncode and its captured output.
C8_OwnExitIsSuccess ==
    (run.pc = "format" /\ ExitedEarly) =>
        /\ run.outcome.success
        /\ run.outcome.returncode = run.exit.code
        /\ run.outcome.stdout = run.exit.stdout
        /\ run.outcome.stderr = run.exit.stderr

\* a program that exits with code 7 and leaves nothing behind
C8_NonZeroExitReported ==
    /\ run.pc = "format"
    /\ ExitedEarly
    /\ run.prog = "found"
    /\ run.exit.code = 7
    /\ run.outcome.success
    /\ run.outcome.returncode = 7

\* C9: when the program of the command is missing or cannot be executed,
\* the outcome is a failure (success False) that is neither the timeout
\* outcome nor the outcome of a program that ran.
C9_SpawnFailureIsFailure ==
    (run.pc = "format" /\ run.prog \in {"missing", "noexec"} /\ ExitedEarly) =>
        /\ ~run.outcome.success
        /\ run.outcome.error # "Command timed out"

---------------------------------------------------------------------------
(* The path guard in the tools (C1) *)

\* path[i..i+1] is a ".." between separators or the ends of the string
HasDotDotSegment(path) ==
    \E i \in 1..(Len(path) - 1) :
        /\ path[i] = "." /\ path[i + 1] = "."
        /\ (i = 1 \/ path[i - 1] = "/")
        /\ (i + 1 = Len(path) \/ path[i + 2] = "/")

PathTools ==
    {"read_file", "write_file", "append_file", "list_directory",
     "get_file_info", "create_directory", "search_files_ag",
     "execute_command"}

\* the error each tool returns for a path that is_safe_path rejects
UnsafeReport(tool) ==
    CASE tool \in {"read_file", "write_file", "append_file"} ->
             "Error: Unsafe file path"
      [] tool \in {"list_directory", "create_directory"} ->
             "Error: Unsafe directory path"
      [] tool = "get_file_info" -> "Error: Unsafe path"
      [] tool = "search_files_ag" -> "Error: Unsafe search path"
      [] OTHER -> "Error: Unsafe working directory"

CommandReport == "Error: Command not allowed for security reasons"

\* is_safe_path is False for every string with a ".." segment, whether or
\* not resolve() raises
DotDotIsUnsafe ==
    \A path \in PathStrings \cup PathInputs :
        HasDotDotSegment(path) =>
            ~is_safe_path(path, FALSE) /\ ~is_safe_path(path, TRUE)

\* the step is a call of a tool with a path that has a ".." segment
DotDotCall ==
    /\ last'.tool \in PathTools
    /\ HasDotDotSegment(last'.args.path)

\* nothing at the path is read, made or changed, and no process is started:
\* the one access is the resolve() of is_safe_path itself
NothingTouched ==
    /\ fs' = fs
    /\ last'.ops \subseteq {"resolve"}
    /\ run' = IdleRun

\* C1: is_safe_path is False for every path with a ".." segment, and a
\* tool called with such a path returns its "Unsafe ..." error, except that
\* execute_command returns the "Command not allowed" error when the command
\* itself is rejected; in every case nothing at the path is read, made or
\* changed and no process is started.
C1_DotDotRejected ==
    [][DotDotCall =>
        /\ DotDotIsUnsafe
        /\ NothingTouched
        /\ last'.res.kind =
               IF /\ last'.tool = "execute_command"
                  /\ ~is_safe_command(last'.args.command)
               THEN CommandReport
               ELSE UnsafeReport(last'.tool)]_vars

\* C1 as the specification states it: every tool called with such a path
\* returns its "Unsafe ..." error.
C1_DotDotAlwaysUnsafeReport ==
    [][DotDotCall =>
        /\ DotDotIsUnsafe
        /\ NothingTouched
        /\ last'.res.kind = UnsafeReport(last'.tool)]_vars

\* create_directory("..") has returned its error and made nothing
C1_CreateRefused ==
    /\ last.tool = "create_directory"
    /\ last.args.path = P_up
    /\ last.res.kind = "Error: Unsafe directory path"
    /\ last.ops = {"resolve"}

---------------------------------------------------------------------------
(* The suffix allowlist in the file tools (C2) *)

FileTools == {"read_file", "write_file", "append_file"}

\* the suffix of the path is, with the case of letters ignored, none of the
\* allowed ones
SuffixNotAllowed(path) ==
    \A e \in ALLOWED_EXTENSIONS : ~SameWord(PathSuffix(path), e)

NotAllowedInputs == {path \in PathInputs : SuffixNotAllowed(path)}

\* the step is a call of a file tool with such a path
NotAllowedCall ==
    /\ last'.tool \in FileTools
    /\ last'.args.path \in NotAllowedInputs

\* C2: read_file, write_file and append_file called with a path whose
\* lower-cased suffix is not allowed return the "File type not allowed"
\* error, or the "Unsafe file path" error when is_safe_path rejects the path
\* first; nothing has been made, truncated or written.
C2_NotAllowedRejected ==
    [][NotAllowedCall =>
        /\ NothingTouched
        /\ last'.res.kind =
               IF is_safe_path(last'.args.path, FALSE)
               THEN "Error: File type not allowed"
               ELSE "Error: Unsafe file path"]_vars

\* C2 as the specification states it: the error is always "File type not
\* allowed".
C2_NotAllowedAlwaysTypeReport ==
    [][NotAllowedCall =>
        /\ NothingTouched
        /\ last'.res.kind = "Error: File type not allowed"]_vars

\* write_file("m.d", ...) has returned the error and there is no m.d
C2_WriteRefused ==
    /\ last.tool = "write_file"
    /\ last.args.path = P_other
    /\ last.res.kind = "Error: File type not allowed"
    /\ ~PathExists(fs, PathParts(P_other))

---------------------------------------------------------------------------
(* The checks before a process is spawned (C3) *)

\* the command has s[i..j] as its first token and that token is blocked
BlockedFirstToken(s) ==
    \E i, j \in 1..Len(s) :
        IsFirstTokenAt(s, i, j) /\ IsBlockedWord(SubSeq(s, i, j))

FirstTokenOf(s) ==
    LET ij == CHOOSE ij \in (1..Len(s)) \X (1..Len(s)) :
                  IsFirstTokenAt(s, ij[1], ij[2])
    IN  SubSeq(s, ij[1], ij[2])

\* a process of the last call exists or has existed
Spawned == run.child # "none" \/ "spawn" \in last.ops

\* C3: execute_command has a process only after is_safe_command has
\* accepted the command and the working directory has passed is_safe_path
\* and is an existing directory; a command whose first token, lower-cased,
\* is blocked never has a process and gets the error that names the token.
C3_SpawnOnlyAfterChecks ==
    /\ (run.pc \notin {"idle", "probe"} \/ Spawned) =>
           /\ last.tool = "execute_command"
           /\ is_safe_command(last.args.command)
           /\ ~BlockedFirstToken(last.args.command)
           /\ is_safe_path(last.args.path, FALSE)
           /\ PathIsDir(fs, PathParts(last.args.path))
    /\ (last.tool = "execute_command" /\ BlockedFirstToken(last.args.command)) =>
           /\ run = IdleRun
           /\ "spawn" \notin last.ops
           /\ last.res.kind = CommandReport
           /\ last.res.text = FirstTokenOf(last.args.command)

\* "Rm" is refused with the token as it was typed
C3_BlockedRefused ==
    /\ last.tool = "execute_command"
    /\ last.args.command = Cmd_blocked
    /\ PathIsDir(fs, PathParts(last.args.path))
    /\ last.res.kind = CommandReport
    /\ last.res.text = <<"R", "m">>

---------------------------------------------------------------------------
(* Appending (C5) and the round trip through a file (C6) *)

\* the inputs with an allowed suffix and no ".." segment
AllowedSafeInputs ==
    {path \in PathInputs : ~HasDotDotSegment(path) /\ ~SuffixNotAllowed(path)}

\* C5: append_file on an allowed path that holds C1, with a content that has
\* an encoding C2: when size(C1) + size(C2) is at most the ceiling the file
\* then holds C1 followed by C2; when it is more, the file still holds C1
\* and the size-limit error is returned.  Nothing else changes.
C5_AppendKeepsOrRefuses ==
    [][LET path == last'.args.path
           key == Walk(fs, <<>>, PathParts(path))
           enc == Encode(last'.args.encoding, last'.args.content)
           held == NodeAt(fs, key).data
       IN  (/\ last'.tool = "append_file"
            /\ path \in AllowedSafeInputs
            /\ IsFileKey(fs, key)
            /\ enc.err = "") =>
               IF Len(held) + Len(enc.bytes) <= MAX_FILE_SIZE
               THEN /\ last'.res.kind = "Successfully appended"
                    /\ fs' = [fs EXCEPT ![key] = File(held \o enc.bytes)]
               ELSE /\ last'.res.kind = "Error: File would exceed size limit"
                    /\ fs' = fs]_vars

\* an append has brought a file that held something exactly to the ceiling
C5_AppendedUpToCeiling ==
    /\ last.tool = "append_file"
    /\ last.res.kind = "Successfully appended"
    /\ PathIsFile(fs, PathParts(last.args.path))
    /\ PathSize(fs, PathParts(last.args.path)) = MAX_FILE_SIZE
    /\ Len(Encode(last.args.encoding, last.args.content).bytes) < MAX_FILE_SIZE

\* C6: write_file of a content within the ceiling, in UTF-8, to a path with
\* an allowed suffix and no ".." segment at which nothing exists, followed
\* by read_file of that path, gives a report whose content is that content.
C6_WriteThenRead ==
    [][LET path == last'.args.path
           content == last'.args.content
       IN  (/\ last'.tool = "write_file"
            /\ path \in AllowedSafeInputs
            /\ last'.args.encoding = DEFAULT_ENCODING
            /\ ~PathExists(fs, PathParts(path))
            /\ Len(Encode(DEFAULT_ENCODING, content).bytes) <= MAX_FILE_SIZE) =>
               /\ last'.res.kind = "Successfully wrote"
               /\ read_file(fs', path, FALSE).res.kind = "File:"
               /\ read_file(fs', path, FALSE).res.text = content]_vars

\* "a" has been written and read_file gives "a" back
C6_PlainRoundTrip ==
    /\ last.tool = "write_file"
    /\ last.res.kind = "Successfully wrote"
    /\ last.args.encoding = DEFAULT_ENCODING
    /\ last.args.content = <<97>>
    /\ read_file(fs, last.args.path, FALSE).res.text = <<97>>

---------------------------------------------------------------------------
(* An I/O error while reading (C11) *)

UnreadableReport == "Error: Unable to read file with supported encodings"

\* read_file has opened the file and the open or the read failed with an
\* error that is no decoding error
ReadHitOSError ==
    /\ last.tool = "read_file"
    /\ last.args.oserror
    /\ "open_r" \in last.ops

\* C11: when reading fails with an error that is no decoding error, the
\* loop stops at its first candidate, and what read_file returns names that
\* error: it is not the "Unable to read file with supported encodings"
\* report.
C11_IOErrorSurfaced ==
    ReadHitOSError =>
        LET parts == PathParts(last.args.path)
            content == read_file_content(
                           NodeAt(fs, Walk(fs, <<>>, parts)).data, TRUE)
        IN  /\ content.tried = <<"utf-8">>
            /\ last.res.kind # UnreadableReport

\* the loop has stopped at utf-8 on such an error
C11_StoppedAtFirst ==
    /\ ReadHitOSError
    /\ read_file_content(
           NodeAt(fs, Walk(fs, <<>>, PathParts(last.args.path))).data,
           TRUE).tried = <<"utf-8">>

---------------------------------------------------------------------------
(* Exceptions that leave a tool (C12) *)

\* the last call has ended
CallEnded == last.tool # "none" /\ run.pc = "idle"

\* C12: every call of a tool, whatever its arguments and whatever the
\* probe for the search binary does, ends by returning a string: no
\* exception leaves the tool function.
C12_NoExceptionEscapes == CallEnded => last.res.kind # "raise"

\* append_file with a content the codec cannot encode returns its error
C12_AppendReportsEncodeError ==
    /\ last.tool = "append_file"
    /\ last.args.encoding = "ascii"
    /\ last.args.content = <<233>>
    /\ last.res.kind = "Error appending to file"
    /\ last.res.text = "UnicodeEncodeError"

---------------------------------------------------------------------------
(* Other calls while a command runs (C13) *)

\* execute_command waits for its child
WaitingForChild == run.pc = "wait" /\ run.child = "running"

\* C13: while execute_command waits for its child the call is suspended,
\* so another call that arrives can start and complete before it returns.
C13_OthersRunWhileWaiting == WaitingForChild => ENABLED GetCurrentDirectory

\* a command is being waited for with time left
C13_Waiting == WaitingForChild /\ run.elapsed < run.timeout

---------------------------------------------------------------------------
(* Waits without a deadline (C14) *)

\* the server waits for a process that it started without a timeout
WaitsWithoutDeadline == run.pc = "probe"

\* C14: every process an operation starts is waited for with a finite
\* timeout: the wait of execute_command never passes its timeout, and no
\* operation waits for a process without a deadline.
C14_EveryWaitBounded ==
    /\ run.pc = "wait" => run.elapsed <= run.timeout
    /\ ~WaitsWithoutDeadline

\* the search run, which has a timeout, has ended with it
C14_SearchTimedOut ==
    /\ last.tool = "search_files_ag"
    /\ last.args.found.kind = "TimeoutExpired"
    /\ last.res.kind = "Error: Search timed out after 30 seconds"
    /\ run.pc = "idle"

---------------------------------------------------------------------------
(* Exit status of the search (C15) *)

\* search_files_ag has run the search and ag has ended by itself with an
\* exit status of its own
SearchExited ==
    /\ last.tool = "search_files_ag"
    /\ "spawn ag" \in last.ops
    /\ last.args.found.kind = "exit"
    /\ last.args.found.returncode >= 0

\* C15: when the search has ended with an exit status, status 0 with output
\* gives the results report with that output, status 1 gives the "No matches
\* found" report, every status greater than 1 gives the "Error running ag"
\* report, and a search that matched nothing (status 1, or status 0 without
\* output) is given the "No matches found" report, which is no error.
C15_ExitStatusMapping ==
    SearchExited =>
        LET rc == last.args.found.returncode
            out == last.args.found.stdout
            kind == last.res.kind
        IN  /\ (rc = 0 /\ out # "") =>
                    kind = "Search Results for:" /\ last.res.text = out
            /\ rc = 1 => kind = "No matches found for pattern:"
            /\ rc > 1 => kind = "Error running ag"
            /\ (rc = 1 \/ (rc = 0 /\ out = "")) =>
                    kind = "No matches found for pattern:"

\* ag has ended with status 1 and the report is "No matches found"
C15_NoMatchIsNoError ==
    /\ SearchExited
    /\ last.args.found.returncode = 1
    /\ last.res.kind = "No matches found for pattern:"

---------------------------------------------------------------------------
(* The "not installed" report (C16) *)

NotInstalledReport == "Error: 'ag' (The Silver Searcher) is not installed"

\* search_files_ag has run the probe and has returned
ProbeRan ==
    /\ last.tool = "search_files_ag"
    /\ "spawn ag --version" \in last.ops
    /\ run.pc = "idle"

\* C16: when the probe has run, an absent binary gives the "not installed"
\* report without the search being started, a search that was started never
\* gives that report, and the report is given only when the binary is
\* absent.
C16_NotInstalledIffAbsent ==
    ProbeRan =>
        /\ last.args.probe = "FileNotFoundError" =>
                /\ last.res.kind = NotInstalledReport
                /\ "spawn ag" \notin last.ops
        /\ "spawn ag" \in last.ops => last.res.kind # NotInstalledReport
        /\ last.res.kind = NotInstalledReport =>
                last.args.probe = "FileNotFoundError"

\* the binary is absent and the report says so, without a search
C16_AbsentReported ==
    /\ ProbeRan
    /\ last.args.probe = "FileNotFoundError"
    /\ last.res.kind = NotInstalledReport
    /\ "spawn ag" \notin last.ops

---------------------------------------------------------------------------
(* Exactness of the traversal check (C17) *)

PathChecked == gIn.kind = "path" /\ gOut.done

\* C17: when resolve() does not raise, is_safe_path rejects a path if and
\* only if one of its segments is exactly ".."; a path without such a
\* segment, "..m" or "..." for instance, is accepted.
C17_RejectsExactlyDotDot ==
    (PathChecked /\ ~gIn.raises) =>
        (~gOut.safe <=> HasDotDotSegment(gIn.s))

\* a path with a ".." segment has been rejected
C17_DotDotSegmentRejected ==
    /\ PathChecked
    /\ ~gIn.raises
    /\ HasDotDotSegment(gIn.s)
    /\ ~gOut.safe

---------------------------------------------------------------------------
(* The size check comes before every change (C18) *)

SizeReports ==
    {"Error: Content too large", "Error: File would exceed size limit"}

WriteTools == {"write_file", "append_file"}

\* C18: a write_file or append_file that is refused for size has changed
\* nothing and has neither made a directory nor opened the file; a file
\* that a step has written, and the target of every write or append that
\* succeeded, is at most MAX_FILE_SIZE bytes long.
C18_SizeCheckBeforeChange ==
    [][LET target == PathParts(last'.args.path)
       IN  /\ (last'.tool \in WriteTools /\ last'.res.kind \in SizeReports) =>
                  /\ fs' = fs
                  /\ last'.ops \cap {"mkdir", "open_w", "open_a"} = {}
           /\ \A k \in DOMAIN fs' :
                  (fs'[k].kind = "file" /\ fs'[k] # NodeAt(fs, k)) =>
                      Len(fs'[k].data) <= MAX_FILE_SIZE
           /\ (/\ last'.tool \in WriteTools
               /\ last'.res.kind \in
                      {"Successfully wrote", "Successfully appended"}) =>
                  /\ PathIsFile(fs', target)
                  /\ PathSize(fs', target) <= MAX_FILE_SIZE]_vars

\* write_file has refused a content for its size and the file that was at
\* the path is still there
C18_WriteRefusedForSize ==
    /\ last.tool = "write_file"
    /\ last.res.kind = "Error: Content too large"
    /\ PathIsFile(fs, PathParts(last.args.path))
    /\ PathSize(fs, PathParts(last.args.path)) > 0

---------------------------------------------------------------------------
(* The window between the size check and the write (C19) *)

\* process s returns from an append_file that had passed its size check
WritesAfterCheck(s) == gIn[s].pc = "checked" /\ gIn'[s].pc = "idle"

\* both processes have passed the size check on the same file and neither
\* has written yet
BothInWindow ==
    /\ \A s \in Servers : gIn[s].pc = "checked"
    /\ \A s, t \in Servers : gIn[s].path = gIn[t].path

\* C19: the check and the write of append_file are not one step: while one
\* process is between them the other can pass its own check against the
\* same size, and each write then appends its content to the file as it is
\* at that time, whatever its size has become, and reports success.
C19_WriteDoesNotLookAgain ==
    [][\A s \in Servers :
           WritesAfterCheck(s) =>
               LET parts == PathParts(gIn[s].path)
                   bytes == Encode(gIn[s].encoding, gIn[s].content).bytes
                   held == IF PathIsFile(fs, parts)
                           THEN NodeAt(fs, Walk(fs, <<>>, parts)).data
                           ELSE <<>>
               IN  /\ last'.res.kind = "Successfully appended"
                   /\ PathIsFile(fs', parts)
                   /\ NodeAt(fs', Walk(fs', <<>>, parts)).data
                          = held \o bytes]_vars

\* two appends that each passed the check have both been written and the
\* file is longer than the ceiling
C19_FileOverCeiling ==
    /\ last.tool = "append_file"
    /\ last.res.kind = "Successfully appended"
    /\ \A s \in Servers : gIn[s].pc = "idle"
    /\ PathIsFile(fs, PathParts(last.args.path))
    /\ PathSize(fs, PathParts(last.args.path)) > MAX_FILE_SIZE

---------------------------------------------------------------------------
(* create_directory twice (C20) *)

\* the keys of the directories on the way to parts, parts included
RECURSIVE KeysTo(_, _)
KeysTo(f, parts) ==
    IF parts = <<>> THEN {}
    ELSE {Walk(f, <<>>, parts)} \cup KeysTo(f, Front(parts))

\* C20: for a path that is_safe_path accepts, create_directory on a
\* directory that exists returns success and changes nothing; a second
\* create_directory right after any first one changes nothing and returns
\* what the first returned; and a first one that succeeds leaves directories
\* at the path and at all its parents, having changed nothing but entries
\* on that path that were missing.
C20_CreateDirectoryIdempotent ==
    [][LET path == last'.args.path
           parts == PathParts(path)
           again == create_directory(fs', path)
       IN  (last'.tool = "create_directory" /\ is_safe_path(path, FALSE)) =>
               /\ PathIsDir(fs, parts) =>
                      /\ last'.res.kind = "Successfully created directory"
                      /\ fs' = fs
               /\ again.fs = fs'
               /\ again.res.kind = last'.res.kind /\ again.res = last'.res
               /\ last'.res.kind = "Successfully created directory" =>
                      /\ \A i \in 1..Len(parts) :
                             PathIsDir(fs', SubSeq(parts, 1, i))
                      /\ \A k \in DOMAIN fs :
                             fs'[k] # fs[k] =>
                                 /\ k \in KeysTo(fs', parts)
                                 /\ fs[k] = Absent
                                 /\ fs'[k] = Dir]_vars

\* create_directory has made a directory inside a directory
C20_CreatedWithParent ==
    /\ last.tool = "create_directory"
    /\ last.args.path = P_file
    /\ last.res.kind = "Successfully created directory"
    /\ PathIsDir(fs, PathParts(P_file))
    /\ PathIsDir(fs, PathParts(P_dir))

---------------------------------------------------------------------------
(* The traversal decision and the state of the filesystem (C21) *)

\* C21: the result of is_safe_path for a path string is the same in every
\* state of the filesystem, those where resolve() raises (a symlink loop on
\* the way, a working directory that was removed) and those where it does
\* not.
C21_DecisionByStringAlone ==
    PathChecked =>
        \A resolveRaises \in BOOLEAN :
            gOut.safe = is_safe_path(gIn.s, resolveRaises)

\* a path without a segment that starts with ".." has been rejected, in a
\* state where resolve() raises
C21_RejectedForState ==
    /\ PathChecked
    /\ gIn.raises
    /\ ~gOut.safe
    /\ is_safe_path(gIn.s, FALSE)

---------------------------------------------------------------------------
(* The end of the candidates (C22) *)

FileRead == gIn.kind = "file" /\ gOut.done

\* no candidate decodes all of data
NoCandidateDecodes(data) ==
    \A k \in 1..Len(FixedOrder) : ~Decode(FixedOrder[k], data).ok

\* C22: when no candidate decodes the file read_file_content returns None;
\* read_file reports "Unable to read file with supported encodings" exactly
\* when read_file_content returned None, and otherwise the text it reports
\* is the text of one candidate that decoded the whole file; latin-1
\* decodes every file, so cp1252 is never tried and None is returned only
\* when open() or read() failed with an error that is not a decoding error.
C22_UnreadableOnlyByIOError ==
    FileRead =>
        LET content == gOut.content
            k == Len(content.tried)
        IN  /\ NoCandidateDecodes(gIn.s) => content.none
            /\ Decode("latin-1", gIn.s).ok
            /\ \A i \in 1..k : content.tried[i] # "cp1252"
            /\ content.none <=> gIn.oserror
            /\ ~content.none =>
                   /\ content.tried = SubSeq(FixedOrder, 1, k)
                   /\ Decode(FixedOrder[k], gIn.s).ok
                   /\ content.text =
                          UniversalNewlines(Decode(FixedOrder[k], gIn.s).text)
            /\ Len(gIn.s) <= MAX_FILE_SIZE =>
                   IF content.none
                   THEN gOut.report.kind = UnreadableReport
                   ELSE /\ gOut.report.kind = "File:"
                        /\ gOut.report.text = content.text

\* a file that neither UTF-8 nor GBK nor GB2312 decodes has been read as
\* latin-1, and read_file reports that text
C22_Latin1Decoded ==
    /\ FileRead
    /\ ~gIn.oserror
    /\ gOut.content.tried = SubSeq(FixedOrder, 1, 4)
    /\ ~gOut.content.none
    /\ Len(gIn.s) <= MAX_FILE_SIZE
    /\ gOut.report.kind = "File:"

---------------------------------------------------------------------------
(* The tools that only read (C23) *)

ReadOnlyTools ==
    {"read_file", "list_directory", "get_file_info", "get_current_directory",
     "search_files_ag"}

\* C23: a step of read_file, list_directory, get_file_info,
\* get_current_directory or search_files_ag leaves every file and directory
\* as it was, whether it returns a result or an error or raises, and makes
\* no call that creates or writes (the ag processes it starts aside).
C23_ReadOnlyToolsChangeNothing ==
    [][last'.tool \in ReadOnlyTools =>
           /\ fs' = fs
           /\ last'.ops \cap {"mkdir", "open_w", "open_a"} = {}]_vars

\* read_file has returned the content of a file, which is still there
C23_FileReadAndKept ==
    /\ last.tool = "read_file"
    /\ last.res.kind = "File:"
    /\ last.res.n > 0
    /\ PathIsFile(fs, PathParts(last.args.path))
    /\ PathSize(fs, PathParts(last.args.path)) > 0

===========================================================================
